---- MODULE Spec2Model ----
(***************************************************************************)
(* lazyhttp: the token bucket rate limiter (package ratelimit) and the     *)
(* request pipeline client.Do with its retry loop and backoff policies.    *)
(*                                                                         *)
(* Four systems are specified over one set of variables:                   *)
(*   SpecRL       one limiter, its background goroutine, a clock and a set *)
(*                of goroutines calling Wait;                              *)
(*   SpecDo       one client of any configuration and one call of Do;      *)
(*   SpecShared   one retrying client and several calls of Do at once;     *)
(*   SpecBackoff  backoff policy instances called on their own.            *)
(* Time is abstracted to events: a tick of the ticker, the expiry of a     *)
(* deadline, the firing of a timer.                                        *)
(***************************************************************************)
EXTENDS Naturals, Integers, Sequences, FiniteSets, TLC

(***************************************************************************)
(* Bounds of the model.                                                    *)
(***************************************************************************)
MaxTokens == 2
MaxTicks == 2
NumWaiters == 2
MaxHooks == 2
MaxRetries == 2
NumRequests == 2
MaxBase == 2

\* executions of one Do call that the model counts and records: more than
\* any limited policy allows
MaxExec == MaxRetries + 2

\* the transport answers up to MaxFail times with a response to retry
MaxFail == MaxRetries + 1

Waiters == 1..NumWaiters

\* the goroutines that call Do on one client at the same time
Requests == 1..NumRequests

VARIABLES
    \* ---- tokenBucketRateLimiter ----
    maxTokens,      \* the constructor's maxTokens (capacity of the channel)
    bucket,         \* len(lim.bucket): tokens are struct{}{} values, fungible
    mtx,            \* lim.mtx is locked
    rpc,            \* position of the background goroutine
    ri,             \* the loop variable i of the goroutine's current loop
    tickPending,    \* a tick is buffered in t.C (time.Ticker's channel has room for one)
    ticks,          \* ticks delivered by the clock so far
    stopped,        \* the owner has called Stop on the ticker
    \* ---- goroutines calling Wait ----
    wpc,            \* position of each caller in Wait
    wctx,           \* Err() of the context the goroutine's select waits on
    wdl,            \* who set the deadline of that context: "caller" or "limiter"
    wres,           \* what Wait returned
    \* ---- history (not read by the program) ----
    placed,         \* tokens ever sent into the bucket
    granted,        \* Wait calls that returned nil
    filled,         \* a refill pass has been completed
    takenSinceFill, \* a token was received since the last refill pass began
    \* ---- the client and the transport behind it ----
    cfg,            \* the client built by NewClient(opts...)
    failFirst,      \* the transport's first failFirst responses satisfy the retry predicate
    \* ---- goroutines calling Do ----
    dpc,            \* position of each caller in Do
    hasDeadline,    \* req.Context() carries a deadline
    reqErr,         \* Err() of req.Context()
    ddl,            \* who set the deadline of Do's ctx: "request", "client" or "none"
    hi,             \* index of the hook loop Do is in
    res,            \* Do's variable res
    lerr,           \* the retry loop's variable err
    bop,            \* Do's variable bop: the backoff policy instance of this request
    policies,       \* the backoff policy instances created so far, by instance
    timer,          \* the backoff timer of the retry wait
    dret,           \* what Do returned: response and error
    \* ---- history of each Do call (not read by the program) ----
    execs,          \* executions performed (calls of c.execute)
    ctxTaken,       \* the retry wait has seen ctx.Done()
    late,           \* predicate, Backoff() or execute ran after the retry wait saw ctx.Done()
    terrSeen,       \* an execution failed at transport level
    log,            \* the calls Do made so far, in order: Wait, hooks, Authenticate, execute
    \* ---- backoff policy instances used on their own ----
    binst,          \* the instances, as their constructors and calls left them
    bhist           \* what each call of Backoff() returned, by instance

rlVars == <<maxTokens, bucket, mtx, rpc, ri, tickPending, ticks, stopped>>
waitVars == <<wpc, wctx, wdl, wres>>
histVars == <<placed, granted, filled, takenSinceFill>>
clientVars == <<cfg, failFirst>>
doVars == <<dpc, hasDeadline, reqErr, ddl, hi, res, lerr, bop, policies, timer, dret>>
doHist == <<execs, ctxTaken, late, terrSeen>>
obsVars == <<log, binst, bhist>>
vars == <<rlVars, waitVars, histVars, clientVars, doVars, doHist, obsVars>>

(***************************************************************************)
(* Channel operations on lim.bucket, a chan struct{} of capacity           *)
(* maxTokens: a send is ready when there is room, a receive when there is  *)
(* a value.                                                                *)
(***************************************************************************)
BucketCapShort(n) == n - 1

BucketCap(n) == n

CanSend(len, n) == len < BucketCap(n)

CanRecvAlways(len) == TRUE

CanRecv(len) == len > 0

ChanRecvNoRemove(len) == len

ChanRecvDrains(len) == 0

ChanRecv(len) == len - 1

ChanSend(len) == len + 1

(***************************************************************************)
(* Errors.                                                                 *)
(***************************************************************************)
NotReturned == [kind |-> "none"]

NoErr == [kind |-> "nil"]

NoTokenErrorBare(cause) == [kind |-> "NoTokenError", Err |-> "nil"]

NoTokenError(cause) == [kind |-> "NoTokenError", Err |-> cause]

CtxErrs == {"Canceled", "DeadlineExceeded"}

(***************************************************************************)
(* NewTokenBucketRateLimiter: the limiter after construction; the          *)
(* goroutine is started and has not run yet.                               *)
(***************************************************************************)
InitLimiter ==
    /\ maxTokens \in 1..MaxTokens
    /\ bucket = 0
    /\ mtx = FALSE
    /\ rpc = "prefill"
    /\ ri = 0
    /\ tickPending = FALSE
    /\ ticks = 0
    /\ stopped = FALSE

\* the goroutines P that will call Wait have not called it yet
InitWaiters(P) ==
    /\ wpc = [p \in P |-> "idle"]
    /\ wctx = [p \in P |-> "none"]
    /\ wdl = [p \in P |-> "none"]
    /\ wres = [p \in P |-> NotReturned]

\* no backoff policy is used on its own
InitNoBackoffCalls == binst = << >> /\ bhist = << >>

InitHist ==
    /\ placed = 0
    /\ granted = 0
    /\ filled = FALSE
    /\ takenSinceFill = FALSE

\* for i := 0; i < maxTokens; i++ { lim.bucket <- struct{}{} }
PrefillSend ==
    /\ rpc = "prefill"
    /\ ri < maxTokens
    /\ CanSend(bucket, maxTokens)
    /\ bucket' = ChanSend(bucket)
    /\ ri' = ri + 1
    /\ placed' = placed + 1
    /\ UNCHANGED <<maxTokens, stopped, mtx, rpc, tickPending, ticks, waitVars, granted, filled,
                   takenSinceFill>>
    /\ UNCHANGED <<clientVars, doVars, doHist, obsVars>>

\* the pre-fill loop ends; the goroutine blocks in `for range t.C`
PrefillDone ==
    /\ rpc = "prefill"
    /\ ~(ri < maxTokens)
    /\ rpc' = "range"
    /\ ri' = 0
    /\ UNCHANGED <<maxTokens, stopped, bucket, mtx, tickPending, ticks, waitVars, histVars>>
    /\ UNCHANGED <<clientVars, doVars, doHist, obsVars>>

\* the clock: the ticker sends on t.C and drops the tick when one is still buffered
Tick ==
    /\ ~stopped
    /\ ticks < MaxTicks
    /\ ticks' = ticks + 1
    /\ tickPending' = TRUE
    /\ UNCHANGED <<maxTokens, stopped, bucket, mtx, rpc, ri, waitVars, histVars>>
    /\ UNCHANGED <<clientVars, doVars, doHist, obsVars>>

\* for range t.C { lim.mtx.Lock(); i := 0
RangeRecv ==
    /\ rpc = "range"
    /\ tickPending
    /\ ~mtx
    /\ tickPending' = FALSE
    /\ mtx' = TRUE
    /\ rpc' = "fill"
    /\ ri' = 0
    /\ takenSinceFill' = FALSE
    /\ UNCHANGED <<maxTokens, stopped, bucket, ticks, waitVars, placed, granted, filled>>
    /\ UNCHANGED <<clientVars, doVars, doHist, obsVars>>

FillCondIgnoresLen(i, n, len) == i < n

\* the loop condition of the refill: i < maxTokens-len(lim.bucket), evaluated
\* before every iteration with the length the channel has then
FillCond(i, n, len) == i < n - len

FillCheck ==
    /\ rpc = "fill"
    /\ IF FillCond(ri, maxTokens, bucket)
          THEN /\ rpc' = "send"
               /\ UNCHANGED <<mtx, ri, filled>>
          ELSE \* lim.mtx.Unlock(), back to the range
               /\ rpc' = "range"
               /\ mtx' = FALSE
               /\ ri' = 0
               /\ filled' = TRUE
    /\ UNCHANGED <<maxTokens, stopped, bucket, tickPending, ticks, waitVars, placed, granted,
                   takenSinceFill>>
    /\ UNCHANGED <<clientVars, doVars, doHist, obsVars>>

\* lim.bucket <- struct{}{}; i++
FillSend ==
    /\ rpc = "send"
    /\ CanSend(bucket, maxTokens)
    /\ bucket' = ChanSend(bucket)
    /\ ri' = ri + 1
    /\ placed' = placed + 1
    /\ rpc' = "fill"
    /\ UNCHANGED <<maxTokens, stopped, mtx, tickPending, ticks, waitVars, granted, filled,
                   takenSinceFill>>
    /\ UNCHANGED <<clientVars, doVars, doHist, obsVars>>

\* the owner of the ticker calls its Stop: no tick is sent any more, and the
\* channel t.C stays open, with the tick it may still hold
StopClock ==
    /\ rpc # "none"
    /\ ~stopped
    /\ stopped' = TRUE
    /\ UNCHANGED <<maxTokens, bucket, mtx, rpc, ri, tickPending, ticks, waitVars, histVars>>
    /\ UNCHANGED <<clientVars, doVars, doHist, obsVars>>

(***************************************************************************)
(* tokenBucketRateLimiter.Wait                                             *)
(***************************************************************************)
\* The context select waits on carries a deadline: the caller's, or else the
\* one Wait sets with context.WithTimeout(ctx, l.timeout).
DeadlineOwnerNoDefault(hasDl) == IF hasDl THEN "caller" ELSE "nobody"

DeadlineOwner(hasDl) == IF hasDl THEN "caller" ELSE "limiter"

\* Wait is entered with a context that has a deadline or not and that is
\* live or already done (a context without deadline can only be cancelled).
\* hasDl: the context passed to Wait carries a deadline; err: its Err().
WaitEnter(p, hasDl, err) ==
    /\ wpc[p] = "idle"
    /\ err = "DeadlineExceeded" => hasDl
    /\ wpc' = [wpc EXCEPT ![p] = "select"]
    /\ wctx' = [wctx EXCEPT ![p] = err]
    /\ wdl' = [wdl EXCEPT ![p] = DeadlineOwner(hasDl)]

WaitCall(p, hasDl, err) ==
    /\ WaitEnter(p, hasDl, err)
    /\ UNCHANGED <<rlVars, wres, histVars>>
    /\ UNCHANGED <<clientVars, doVars, doHist, obsVars>>

\* the caller (or a parent of its context) cancels while Wait is in select
CtxCancel(p) ==
    /\ wpc[p] = "select"
    /\ wctx[p] = "none"
    /\ wctx' = [wctx EXCEPT ![p] = "Canceled"]
    /\ UNCHANGED <<rlVars, wpc, wdl, wres, histVars>>
    /\ UNCHANGED <<clientVars, doVars, doHist, obsVars>>

\* the deadline of the context elapses
CtxDeadline(p) ==
    /\ wpc[p] = "select"
    /\ wctx[p] = "none"
    /\ wdl[p] \in {"caller", "limiter"}
    /\ wctx' = [wctx EXCEPT ![p] = "DeadlineExceeded"]
    /\ UNCHANGED <<rlVars, wpc, wdl, wres, histVars>>
    /\ UNCHANGED <<clientVars, doVars, doHist, obsVars>>

\* case <-l.bucket: return nil
WaitToken(p) ==
    /\ wpc[p] = "select"
    /\ CanRecv(bucket)
    /\ bucket' = ChanRecv(bucket)
    /\ wpc' = [wpc EXCEPT ![p] = "returned"]
    /\ wres' = [wres EXCEPT ![p] = NoErr]
    /\ granted' = granted + 1
    /\ takenSinceFill' = TRUE
    /\ UNCHANGED <<maxTokens, stopped, mtx, rpc, ri, tickPending, ticks, wctx, wdl, placed, filled>>
    /\ UNCHANGED <<clientVars, doVars, doHist, obsVars>>

WaitDoneTakesToken(p) ==
    /\ wpc[p] = "select"
    /\ wctx[p] \in CtxErrs
    /\ wpc' = [wpc EXCEPT ![p] = "returned"]
    /\ wres' = [wres EXCEPT ![p] = NoTokenError(wctx[p])]
    /\ bucket' = IF CanRecv(bucket) THEN ChanRecv(bucket) ELSE bucket
    /\ UNCHANGED <<maxTokens, stopped, mtx, rpc, ri, tickPending, ticks, wctx, wdl, histVars>>
    /\ UNCHANGED <<clientVars, doVars, doHist, obsVars>>

\* case <-ctx.Done(): return NoTokenError{Err: ctx.Err()}
WaitDone(p) ==
    /\ wpc[p] = "select"
    /\ wctx[p] \in CtxErrs
    /\ wpc' = [wpc EXCEPT ![p] = "returned"]
    /\ wres' = [wres EXCEPT ![p] = NoTokenError(wctx[p])]
    /\ UNCHANGED <<rlVars, wctx, wdl, histVars>>
    /\ UNCHANGED <<clientVars, doVars, doHist, obsVars>>

(***************************************************************************)
(* Backoff policies (backoff.go).  A policy instance is a record; Backoff  *)
(* returns the duration, the flag and the instance as the call leaves it.  *)
(* Durations are numbers of time units.                                    *)
(***************************************************************************)
PolicyKinds == {"noop", "infinite", "limited"}

\* NewNoopBackoff(), NewInfiniteBackoff(base), NewLimitedTriesBackoff(base, retries)
NewBackoff(kind, base, retries) ==
    [kind |-> kind, base |-> base, done |-> 0, retries |-> retries]

\* the factories of the model's clients use a base of one time unit
NewPolicy(kind, retries) == NewBackoff(kind, 1, retries)

NoopBackoff(b) == [t |-> 0, ok |-> FALSE, b |-> b]

InfiniteBackoff(b) == [t |-> b.base, ok |-> TRUE, b |-> b]

LimitedTriesBackoffOffByOne(b) ==
    IF b.done > b.retries
        THEN [t |-> 0, ok |-> FALSE, b |-> b]
        ELSE [t |-> b.base, ok |-> TRUE, b |-> [b EXCEPT !.done = @ + 1]]

LimitedTriesBackoffNoCount(b) ==
    IF b.done + 1 > b.retries
        THEN [t |-> 0, ok |-> FALSE, b |-> b]
        ELSE [t |-> b.base, ok |-> TRUE, b |-> b]

LimitedTriesBackoff(b) ==
    IF b.done + 1 > b.retries
        THEN [t |-> 0, ok |-> FALSE, b |-> b]
        ELSE [t |-> b.base, ok |-> TRUE, b |-> [b EXCEPT !.done = @ + 1]]

Backoff(b) ==
    CASE b.kind = "noop" -> NoopBackoff(b)
      [] b.kind = "infinite" -> InfiniteBackoff(b)
      [] b.kind = "limited" -> LimitedTriesBackoff(b)

(***************************************************************************)
(* Policies used on their own: two instances, of any kind, base and        *)
(* number of retries, each called up to MaxCalls times.                    *)
(***************************************************************************)
BackoffInstances == {1, 2}

\* calls made on one instance: more than any limited policy allows
MaxCalls == MaxRetries + 2

NewBackoffs ==
    {NewBackoff("noop", 0, 0)}
        \cup {NewBackoff("infinite", base, 0) : base \in 0..MaxBase}
        \cup {NewBackoff("limited", base, retries) :
                  base \in 0..MaxBase, retries \in 0..MaxRetries}

\* t, ok := b.Backoff() on instance i
CallBackoff(i) ==
    /\ Len(bhist[i]) < MaxCalls
    /\ LET r == Backoff(binst[i])
       IN  /\ binst' = [binst EXCEPT ![i] = r.b]
           /\ bhist' = [bhist EXCEPT ![i] = Append(@, [t |-> r.t, ok |-> r.ok])]
    /\ UNCHANGED <<rlVars, waitVars, histVars, clientVars, doVars, doHist, log>>

(***************************************************************************)
(* The exponential policy (backoff.go 72-128).  Durations are whole        *)
(* milliseconds; the inputs below stay far from the limits of              *)
(* time.Duration, so the products are the mathematical ones.               *)
(***************************************************************************)

\* the argument of rand.Intn in the jitter closure, in milliseconds
JitterBound == 500

RandIntnInclusive(n) == 0..n

\* rand.Intn(n): an integer in [0, n)
RandIntn(n) == 0..(n - 1)

\* b.jitter(): the values explored are both ends of the range and one neighbour
Jitters == {j \in RandIntn(JitterBound) : j < 2 \/ j > JitterBound - 2}

RECURSIVE Shl(_, _)
\* x << n
Shl(x, n) == IF n = 0 THEN x ELSE 2 * Shl(x, n - 1)

\* the wait before jitter: b.base on the first call, then b.base * (2 << (b.done-1))
Raw(b) == IF b.done = 0 THEN b.base ELSE b.base * Shl(2, b.done - 1)

NewExponentialBackoffArgs(base, max, retries) ==
    [kind |-> "args", base |-> base, max |-> max, retries |-> retries]

\* NewExponentialBackoff: panics when base == 0, otherwise a policy with done = 0
NewExponentialBackoff(base, max, retries) ==
    IF base = 0
    THEN [kind |-> "panic", base |-> base]
    ELSE [kind |-> "exponential", base |-> base, done |-> 0, max |-> max,
          retries |-> retries]

ExponentialBackoffCapNoCount(b, j1, j2) ==
    IF b.done + 1 > b.retries
    THEN [t |-> 0, ok |-> FALSE, b |-> b]
    ELSE LET current == Raw(b) + j1
         IN  IF current >= b.max
             THEN [t |-> b.max + j2, ok |-> TRUE, b |-> b]
             ELSE [t |-> current, ok |-> TRUE, b |-> [b EXCEPT !.done = @ + 1]]

ExponentialBackoffCountsRefusal(b, j1, j2) ==
    IF b.done + 1 > b.retries
    THEN [t |-> 0, ok |-> FALSE, b |-> [b EXCEPT !.done = @ + 1]]
    ELSE LET current == Raw(b) + j1
         IN  IF current >= b.max
             THEN [t |-> b.max + j2, ok |-> TRUE, b |-> [b EXCEPT !.done = @ + 1]]
             ELSE [t |-> current, ok |-> TRUE, b |-> [b EXCEPT !.done = @ + 1]]

ExponentialBackoffNoCap(b, j1, j2) ==
    IF b.done + 1 > b.retries
    THEN [t |-> 0, ok |-> FALSE, b |-> b]
    ELSE [t |-> Raw(b) + j1, ok |-> TRUE, b |-> [b EXCEPT !.done = @ + 1]]

\* (b *exponentialBackoff) Backoff(); j1 and j2 are the results of the first and
\* of the second call of b.jitter()
ExponentialBackoff(b, j1, j2) ==
    IF b.done + 1 > b.retries
    THEN [t |-> 0, ok |-> FALSE, b |-> b]
    ELSE LET current == Raw(b) + j1
         IN  IF current >= b.max
             THEN [t |-> b.max + j2, ok |-> TRUE, b |-> [b EXCEPT !.done = @ + 1]]
             ELSE [t |-> current, ok |-> TRUE, b |-> [b EXCEPT !.done = @ + 1]]

\* which calls of b.jitter() one call of Backoff makes
DrawsFirst(b) == ~(b.done + 1 > b.retries)
DrawsSecond(b, j1) == DrawsFirst(b) /\ Raw(b) + j1 >= b.max

\* the one policy instance of the exponential system
ExpInstance == 1

\* base durations in milliseconds: negative, zero, below and from the jitter bound
ExpBases == {0 - 1000, 0, 1, JitterBound - 1, JitterBound, 1000, 5000}

\* max durations in milliseconds: negative, zero, between and beyond the raw waits
ExpMaxes == {0 - 1000, 0 - 1, 0, 1000, 1400, 2000, 7200000}

\* retry limits of the exponential policies: up to a third wait (4 * base)
ExpRetries == MaxRetries + 1

ExponentialArgs ==
    {NewExponentialBackoffArgs(base, max, retries) :
         base \in ExpBases, max \in ExpMaxes, retries \in 0..ExpRetries}

LimitedPolicies ==
    {NewBackoff("limited", base, retries) : base \in 0..MaxBase, retries \in 0..MaxRetries}

\* b := NewExponentialBackoff(base, max, retries)
ConstructExponential ==
    /\ binst[ExpInstance].kind = "args"
    /\ LET a == binst[ExpInstance]
       IN  binst' = [binst EXCEPT ![ExpInstance] =
                         NewExponentialBackoff(a.base, a.max, a.retries)]
    /\ UNCHANGED <<rlVars, waitVars, histVars, clientVars, doVars, doHist, log, bhist>>

\* t, ok := b.Backoff() on the exponential policy; every entry of the history
\* keeps the wait before jitter and the jitter values drawn by the call
CallExponential(j1, j2) ==
    /\ binst[ExpInstance].kind = "exponential"
    /\ Len(bhist[ExpInstance]) < MaxCalls
    /\ LET b == binst[ExpInstance]
           r == ExponentialBackoff(b, j1, j2)
       IN  /\ DrawsFirst(b) \/ j1 = 0
           /\ DrawsSecond(b, j1) \/ j2 = 0
           /\ binst' = [binst EXCEPT ![ExpInstance] = r.b]
           /\ bhist' = [bhist EXCEPT ![ExpInstance] =
                            Append(@, [t |-> r.t, ok |-> r.ok, raw |-> Raw(b),
                                       j1 |-> j1, j2 |-> j2])]
    /\ UNCHANGED <<rlVars, waitVars, histVars, clientVars, doVars, doHist, log>>

\* t, ok := b.Backoff() on the limited-tries policy of the same system
CallLimited ==
    /\ binst[ExpInstance].kind = "limited"
    /\ CallBackoff(ExpInstance)

(***************************************************************************)
(* The client (errors.go).                                                 *)
(***************************************************************************)
Callers == {1}

\* *http.Response values: nil, the &http.Response{} Do makes up, and the
\* response of the n-th execution, which the retry predicate accepts or not
NilResp == [kind |-> "nil"]

EmptyResp == [kind |-> "empty"]

Resp(n, retry) == [kind |-> "response", n |-> n, retry |-> retry]

\* error values
RateLimitErrorNoCause(e) == [kind |-> "RateLimitError", Err |-> NoErr, RateLimiter |-> "rateLimiter"]

RateLimitError(e) == [kind |-> "RateLimitError", Err |-> e, RateLimiter |-> "rateLimiter"]

RequestError(e) == [kind |-> "RequestError", Err |-> e]

ResponseError(e, r) == [kind |-> "ResponseError", Err |-> e, Response |-> r]

\* fmt.Errorf(msg + ": %w", e): wraps e, and wraps nothing when e is nil
\* (the text then reads %!w(<nil>)); without %w, e is NoErr
Errorf(msg, e) ==
    IF e = NoErr
        THEN [kind |-> "errorString", msg |-> msg]
        ELSE [kind |-> "wrapError", msg |-> msg, Err |-> e]

\* newBackoffPolicy of a client built without WithBackoffPolicy
DefaultBackoffInfinite == "infinite"

DefaultBackoff == "noop"

\* NewClient(opts...): any combination of the options; withBackoff says
\* that WithBackoffPolicy was among them, backoff is the policy the
\* client's factory makes
Configs ==
    { c \in [rateLimiter : BOOLEAN, nPre : 0..MaxHooks, authenticator : BOOLEAN,
             retryPolicy : BOOLEAN, withBackoff : BOOLEAN, backoff : PolicyKinds,
             retries : 0..MaxRetries, nPost : 0..MaxHooks] :
        /\ c.backoff # "limited" => c.retries = 0
        /\ ~c.withBackoff => c.backoff = DefaultBackoff }

NoConfig == [rateLimiter |-> FALSE]

InitClient ==
    /\ cfg \in Configs
    /\ failFirst \in 0..MaxFail

\* no client: the limiter is used on its own
InitNoClient ==
    /\ cfg = NoConfig
    /\ failFirst = 0
    /\ dpc = << >>
    /\ hasDeadline = << >>
    /\ reqErr = << >>
    /\ ddl = << >>
    /\ hi = << >>
    /\ res = << >>
    /\ lerr = << >>
    /\ bop = << >>
    /\ policies = << >>
    /\ timer = << >>
    /\ dret = << >>
    /\ execs = << >>
    /\ ctxTaken = << >>
    /\ late = << >>
    /\ terrSeen = << >>
    /\ log = << >>

\* the client has no limiter: none is built and no goroutine runs
InitNoLimiter ==
    /\ maxTokens = 0
    /\ bucket = 0
    /\ mtx = FALSE
    /\ rpc = "none"
    /\ ri = 0
    /\ tickPending = FALSE
    /\ ticks = 0
    /\ stopped = FALSE

\* the goroutines P are about to call Do, each with a request of its own
InitDo(P) ==
    /\ dpc = [c \in P |-> "idle"]
    /\ hasDeadline \in [P -> BOOLEAN]
    /\ reqErr = [c \in P |-> "none"]
    /\ ddl = [c \in P |-> "none"]
    /\ hi = [c \in P |-> 0]
    /\ res = [c \in P |-> NilResp]
    /\ lerr = [c \in P |-> NoErr]
    /\ bop = [c \in P |-> 0]
    /\ policies = << >>
    /\ timer = [c \in P |-> "none"]
    /\ dret = [c \in P |-> NotReturned]
    /\ execs = [c \in P |-> 0]
    /\ ctxTaken = [c \in P |-> FALSE]
    /\ late = [c \in P |-> FALSE]
    /\ terrSeen = [c \in P |-> FALSE]
    /\ log = [c \in P |-> << >>]

Running(c) == dpc[c] \notin {"done", "panic"}

\* a call Do makes: of Wait, of the i-th pre request hook, of Authenticate, of
\* execute, of the i-th post response hook; n counts the executions before it
Event(stage, i, n) == [stage |-> stage, i |-> i, n |-> n]

Logged(c, e) == log' = [log EXCEPT ![c] = Append(@, e)]

\* return r, e
Return(c, r, e) ==
    /\ dpc' = [dpc EXCEPT ![c] = "done"]
    /\ dret' = [dret EXCEPT ![c] = [res |-> r, err |-> e]]

\* ---- the contexts of a Do call ----
\* the caller cancels the request's context
ReqCancel(c) ==
    /\ Running(c)
    /\ reqErr[c] = "none"
    /\ reqErr' = [reqErr EXCEPT ![c] = "Canceled"]
    /\ wctx' = [wctx EXCEPT ![c] = IF @ = "none" THEN "Canceled" ELSE @]
    /\ UNCHANGED <<rlVars, wpc, wdl, wres, histVars, clientVars, dpc, hasDeadline, ddl, hi,
                   res, lerr, bop, policies, timer, dret, doHist>>
    /\ UNCHANGED obsVars

\* the deadline of the request's context elapses
ReqDeadline(c) ==
    /\ Running(c)
    /\ hasDeadline[c]
    /\ reqErr[c] = "none"
    /\ reqErr' = [reqErr EXCEPT ![c] = "DeadlineExceeded"]
    /\ wctx' = [wctx EXCEPT ![c] = IF @ = "none" THEN "DeadlineExceeded" ELSE @]
    /\ UNCHANGED <<rlVars, wpc, wdl, wres, histVars, clientVars, dpc, hasDeadline, ddl, hi,
                   res, lerr, bop, policies, timer, dret, doHist>>
    /\ UNCHANGED obsVars

\* the deadline Do set from conf.MaxRateLimiterWaitTime elapses
ClientDeadline(c) ==
    /\ Running(c)
    /\ ddl[c] = "client"
    /\ wctx[c] = "none"
    /\ wctx' = [wctx EXCEPT ![c] = "DeadlineExceeded"]
    /\ UNCHANGED <<rlVars, wpc, wdl, wres, histVars, clientVars, doVars, doHist>>
    /\ UNCHANGED obsVars

\* ---- Do, step by step ----
\* Do is called: ctx := req.Context()
DoCall(c) ==
    /\ dpc[c] = "idle"
    /\ dpc' = [dpc EXCEPT ![c] = "ratelimit"]
    /\ ddl' = [ddl EXCEPT ![c] = IF hasDeadline[c] THEN "request" ELSE "none"]
    /\ UNCHANGED <<rlVars, waitVars, histVars, clientVars, hasDeadline, reqErr, hi, res,
                   lerr, bop, policies, timer, dret, doHist>>
    /\ UNCHANGED obsVars

DoRateLimitPlainCtx(c) ==
    /\ dpc[c] = "ratelimit"
    /\ IF cfg.rateLimiter
          THEN /\ WaitEnter(c, hasDeadline[c], wctx[c])
               /\ dpc' = [dpc EXCEPT ![c] = "wait"]
               /\ UNCHANGED <<ddl, hi>>
          ELSE /\ dpc' = [dpc EXCEPT ![c] = "prehooks"]
               /\ hi' = [hi EXCEPT ![c] = 0]
               /\ UNCHANGED <<ddl, wpc, wctx, wdl>>
    /\ UNCHANGED <<rlVars, wres, histVars, clientVars, hasDeadline, reqErr, res, lerr, bop,
                   policies, timer, dret, doHist>>
    /\ IF cfg.rateLimiter THEN Logged(c, Event("wait", 0, 0)) ELSE UNCHANGED log
    /\ UNCHANGED <<binst, bhist>>

\* if c.rateLimiter != nil: give ctx a deadline if it has none, and call Wait(ctx)
DoRateLimit(c) ==
    /\ dpc[c] = "ratelimit"
    /\ IF cfg.rateLimiter
          THEN /\ ddl' = [ddl EXCEPT ![c] = IF hasDeadline[c] THEN @ ELSE "client"]
               /\ WaitEnter(c, TRUE, wctx[c])
               /\ dpc' = [dpc EXCEPT ![c] = "wait"]
               /\ UNCHANGED hi
          ELSE /\ dpc' = [dpc EXCEPT ![c] = "prehooks"]
               /\ hi' = [hi EXCEPT ![c] = 0]
               /\ UNCHANGED <<ddl, wpc, wctx, wdl>>
    /\ UNCHANGED <<rlVars, wres, histVars, clientVars, hasDeadline, reqErr, res, lerr, bop,
                   policies, timer, dret, doHist>>
    /\ IF cfg.rateLimiter THEN Logged(c, Event("wait", 0, 0)) ELSE UNCHANGED log
    /\ UNCHANGED <<binst, bhist>>

\* Wait has returned: if err != nil { return nil, RateLimitError{...} }
DoRateLimitReturn(c) ==
    /\ dpc[c] = "wait"
    /\ wpc[c] = "returned"
    /\ IF wres[c] # NoErr
          THEN /\ Return(c, NilResp, RateLimitError(wres[c]))
               /\ UNCHANGED hi
          ELSE /\ dpc' = [dpc EXCEPT ![c] = "prehooks"]
               /\ hi' = [hi EXCEPT ![c] = 0]
               /\ UNCHANGED dret
    /\ UNCHANGED <<rlVars, waitVars, histVars, clientVars, hasDeadline, reqErr, ddl, res,
                   lerr, bop, policies, timer, doHist>>
    /\ UNCHANGED obsVars

\* for _, hook := range hooks: after the i-th element comes the next one
RangeNextSame(i) == i

RangeNext(i) == i + 1

\* for _, hook := range c.preReqHooks: the next hook succeeds (ok) or fails
DoPreHook(c, ok) ==
    /\ dpc[c] = "prehooks"
    /\ hi[c] < cfg.nPre
    /\ IF ok
          THEN /\ hi' = [hi EXCEPT ![c] = RangeNext(@)]
               /\ UNCHANGED <<dpc, dret>>
          ELSE /\ Return(c, EmptyResp, RequestError("error running pre request hook"))
               /\ UNCHANGED hi
    /\ UNCHANGED <<rlVars, waitVars, histVars, clientVars, hasDeadline, reqErr, ddl, res,
                   lerr, bop, policies, timer, doHist>>
    /\ Logged(c, Event("pre", hi[c] + 1, 0))
    /\ UNCHANGED <<binst, bhist>>

DoPreHooksEnd(c) ==
    /\ dpc[c] = "prehooks"
    /\ hi[c] = cfg.nPre
    /\ dpc' = [dpc EXCEPT ![c] = "auth"]
    /\ UNCHANGED <<rlVars, waitVars, histVars, clientVars, hasDeadline, reqErr, ddl, hi, res,
                   lerr, bop, policies, timer, dret, doHist>>
    /\ UNCHANGED obsVars

\* if c.authenticator != nil: Authenticate(req) succeeds (ok) or fails; then
\* the host is set on the request
DoAuth(c, ok) ==
    /\ dpc[c] = "auth"
    /\ IF cfg.authenticator /\ ~ok
          THEN Return(c, NilResp, RequestError("error authenticating request"))
          ELSE /\ dpc' = [dpc EXCEPT ![c] = "execute"]
               /\ UNCHANGED dret
    /\ UNCHANGED <<rlVars, waitVars, histVars, clientVars, hasDeadline, reqErr, ddl, hi, res,
                   lerr, bop, policies, timer, doHist>>
    /\ IF cfg.authenticator THEN Logged(c, Event("auth", 0, 0)) ELSE UNCHANGED log
    /\ UNCHANGED <<binst, bhist>>

\* client.execute: c.httpClient.Do(r) fails (terr), or answers; the transport's
\* n-th answer is one the retry predicate accepts iff n <= failFirst
Execute(n, terr) ==
    IF terr
        THEN [res |-> NilResp, err |-> RequestError("error making http request")]
        ELSE [res |-> Resp(n, n <= failFirst), err |-> NoErr]

\* c.newBackoffPolicy(): the instance made for the request of caller c
NewBackoffPolicyShared(c) == 1

NewBackoffPolicy(c) == c

\* if c.retryPolicy != nil
HasRetryPolicyAlways(conf) == TRUE

HasRetryPolicy(conf) == conf.retryPolicy

\* res, err := c.execute(req); if err != nil { return res, fmt.Errorf(...) };
\* if c.retryPolicy != nil { bop := c.newBackoffPolicy()
DoExecute(c, terr) ==
    /\ dpc[c] = "execute"
    /\ execs' = [execs EXCEPT ![c] = @ + 1]
    /\ terrSeen' = [terrSeen EXCEPT ![c] = @ \/ terr]
    /\ LET r == Execute(execs[c] + 1, terr)
           id == NewBackoffPolicy(c)
       IN  /\ res' = [res EXCEPT ![c] = r.res]
           /\ IF r.err # NoErr
                 THEN /\ Return(c, r.res, Errorf("error executing request", r.err))
                      /\ UNCHANGED <<bop, policies, hi>>
                 ELSE IF HasRetryPolicy(cfg)
                 THEN /\ bop' = [bop EXCEPT ![c] = id]
                      /\ policies' = IF id \in DOMAIN policies
                                        THEN policies
                                        ELSE policies @@ (id :> NewPolicy(cfg.backoff, cfg.retries))
                      /\ dpc' = [dpc EXCEPT ![c] = "predicate"]
                      /\ UNCHANGED <<dret, hi>>
                 ELSE /\ dpc' = [dpc EXCEPT ![c] = "posthooks"]
                      /\ hi' = [hi EXCEPT ![c] = 0]
                      /\ UNCHANGED <<bop, policies, dret>>
    /\ UNCHANGED <<rlVars, waitVars, histVars, clientVars, hasDeadline, reqErr, ddl, lerr,
                   timer, ctxTaken, late>>
    /\ Logged(c, Event("exec", 0, execs[c]))
    /\ UNCHANGED <<binst, bhist>>

\* for c.retryPolicy(res) {: the predicate is the caller's; on a response it
\* answers as the response says, on a nil response it answers true or false
\* or panics (v: "true", "false", "panic")
DoPredicate(c, v) ==
    /\ dpc[c] = "predicate"
    /\ res[c] # NilResp => v = (IF res[c].retry THEN "true" ELSE "false")
    /\ late' = [late EXCEPT ![c] = @ \/ ctxTaken[c]]
    /\ CASE v = "true" ->
                \* var err error
                /\ dpc' = [dpc EXCEPT ![c] = "backoff"]
                /\ lerr' = [lerr EXCEPT ![c] = NoErr]
                /\ UNCHANGED hi
         [] v = "false" ->
                /\ dpc' = [dpc EXCEPT ![c] = "posthooks"]
                /\ hi' = [hi EXCEPT ![c] = 0]
                /\ UNCHANGED lerr
         [] v = "panic" ->
                /\ dpc' = [dpc EXCEPT ![c] = "panic"]
                /\ UNCHANGED <<hi, lerr>>
    /\ UNCHANGED <<rlVars, waitVars, histVars, clientVars, hasDeadline, reqErr, ddl, res,
                   bop, policies, timer, dret, execs, ctxTaken, terrSeen>>
    /\ UNCHANGED obsVars

\* what Do returns when Backoff() reports !ok:
\* return res, fmt.Errorf("error backing off from request: %w", err)
OnExhaustedReturnErr(r, e) == [res |-> r, err |-> e]

OnExhaustedNoResponse(r, e) ==
    [res |-> NilResp, err |-> Errorf("error backing off from request", e)]

OnExhausted(r, e) == [res |-> r, err |-> Errorf("error backing off from request", e)]

\* t, ok := bop.Backoff(); if !ok { return ... }; timer := time.NewTimer(t)
DoBackoff(c) ==
    /\ dpc[c] = "backoff"
    /\ late' = [late EXCEPT ![c] = @ \/ ctxTaken[c]]
    /\ LET r == Backoff(policies[bop[c]])
       IN  /\ policies' = [policies EXCEPT ![bop[c]] = r.b]
           /\ IF ~r.ok
                 THEN /\ Return(c, OnExhausted(res[c], lerr[c]).res,
                                 OnExhausted(res[c], lerr[c]).err)
                      /\ UNCHANGED timer
                 ELSE /\ timer' = [timer EXCEPT ![c] = "set"]
                      /\ dpc' = [dpc EXCEPT ![c] = "select"]
                      /\ UNCHANGED dret
    /\ UNCHANGED <<rlVars, waitVars, histVars, clientVars, hasDeadline, reqErr, ddl, hi, res,
                   lerr, bop, execs, ctxTaken, terrSeen>>
    /\ UNCHANGED obsVars

\* the backoff duration has passed: the timer sends on timer.C
TimerFire(c) ==
    /\ timer[c] = "set"
    /\ timer' = [timer EXCEPT ![c] = "fired"]
    /\ UNCHANGED <<rlVars, waitVars, histVars, clientVars, dpc, hasDeadline, reqErr, ddl, hi,
                   res, lerr, bop, policies, dret, doHist>>
    /\ UNCHANGED obsVars

\* what the loop does with the pair the inner func returned on ctx.Done():
\* it assigns it to res, err and evaluates the loop condition again
AfterCtxDone(c) ==
    /\ dpc' = [dpc EXCEPT ![c] = "predicate"]
    /\ lerr' = [lerr EXCEPT ![c] = Errorf("request context done", NoErr)]
    /\ UNCHANGED dret

\* select { case <-ctx.Done(): return res, fmt.Errorf("request context done")
DoSelectCtxDone(c) ==
    /\ dpc[c] = "select"
    /\ wctx[c] \in CtxErrs
    /\ AfterCtxDone(c)
    /\ ctxTaken' = [ctxTaken EXCEPT ![c] = TRUE]
    /\ UNCHANGED <<rlVars, waitVars, histVars, clientVars, hasDeadline, reqErr, ddl, hi, res,
                   bop, policies, timer, execs, late, terrSeen>>
    /\ UNCHANGED obsVars

\* case <-timer.C: the select receives the timer's value and is committed to
\* the execution; ctx.Done() can no longer be taken in this round
DoSelectTimer(c) ==
    /\ dpc[c] = "select"
    /\ timer[c] = "fired"
    /\ timer' = [timer EXCEPT ![c] = "none"]
    /\ dpc' = [dpc EXCEPT ![c] = "reexecute"]
    /\ UNCHANGED <<rlVars, waitVars, histVars, clientVars, hasDeadline, reqErr, ddl, hi, res,
                   lerr, bop, policies, dret, doHist>>
    /\ UNCHANGED obsVars

\* the executions counted by execs and recorded in the log: the first MaxExec
\* of a call; Do itself counts none and executes as often as the predicate
\* and the policy say
Counted(n) == IF n < MaxExec THEN n + 1 ELSE n

DoReExecuteReadmits(c, terr) ==
    /\ dpc[c] = "reexecute"
    /\ execs' = [execs EXCEPT ![c] = Counted(@)]
    /\ terrSeen' = [terrSeen EXCEPT ![c] = @ \/ terr]
    /\ late' = [late EXCEPT ![c] = @ \/ ctxTaken[c]]
    /\ LET r == Execute(Counted(execs[c]), terr)
       IN  /\ res' = [res EXCEPT ![c] = r.res]
           /\ lerr' = [lerr EXCEPT ![c] =
                          IF r.err # NoErr THEN Errorf("error executing request", r.err)
                                           ELSE NoErr]
    /\ dpc' = [dpc EXCEPT ![c] = "predicate"]
    /\ IF cfg.rateLimiter /\ CanRecv(bucket)
          THEN bucket' = ChanRecv(bucket) /\ granted' = granted + 1
          ELSE UNCHANGED <<bucket, granted>>
    /\ UNCHANGED <<maxTokens, stopped, mtx, rpc, ri, tickPending, ticks, placed, filled,
                   takenSinceFill>>
    /\ UNCHANGED <<waitVars, clientVars, hasDeadline, reqErr, ddl, hi, bop,
                   policies, timer, dret, ctxTaken>>
    /\ IF execs[c] < MaxExec
          THEN log' = [log EXCEPT ![c] =
                          @ \o <<Event("wait", 0, 0), Event("exec", 0, execs[c])>>]
          ELSE UNCHANGED log
    /\ UNCHANGED <<binst, bhist>>

\* res, err = c.execute(req); if err != nil { return res, fmt.Errorf(...) };
\* timer.Stop(); return res, nil; and the loop assigns the pair to res, err
DoReExecute(c, terr) ==
    /\ dpc[c] = "reexecute"
    /\ execs' = [execs EXCEPT ![c] = Counted(@)]
    /\ terrSeen' = [terrSeen EXCEPT ![c] = @ \/ terr]
    /\ late' = [late EXCEPT ![c] = @ \/ ctxTaken[c]]
    /\ LET r == Execute(Counted(execs[c]), terr)
       IN  /\ res' = [res EXCEPT ![c] = r.res]
           /\ lerr' = [lerr EXCEPT ![c] =
                          IF r.err # NoErr THEN Errorf("error executing request", r.err)
                                           ELSE NoErr]
    /\ dpc' = [dpc EXCEPT ![c] = "predicate"]
    /\ UNCHANGED <<rlVars, waitVars, histVars, clientVars, hasDeadline, reqErr, ddl, hi, bop,
                   policies, timer, dret, ctxTaken>>
    /\ IF execs[c] < MaxExec THEN Logged(c, Event("exec", 0, execs[c])) ELSE UNCHANGED log
    /\ UNCHANGED <<binst, bhist>>

\* for _, hook := range c.postRespHooks: the next hook succeeds (ok) or fails
DoPostHook(c, ok) ==
    /\ dpc[c] = "posthooks"
    /\ hi[c] < cfg.nPost
    /\ IF ok
          THEN /\ hi' = [hi EXCEPT ![c] = RangeNext(@)]
               /\ UNCHANGED <<dpc, dret>>
          ELSE /\ Return(c, res[c], ResponseError("error running post response hook", res[c]))
               /\ UNCHANGED hi
    /\ UNCHANGED <<rlVars, waitVars, histVars, clientVars, hasDeadline, reqErr, ddl, res,
                   lerr, bop, policies, timer, doHist>>
    /\ Logged(c, Event("post", hi[c] + 1, execs[c]))
    /\ UNCHANGED <<binst, bhist>>

\* return res, nil
DoReturn(c) ==
    /\ dpc[c] = "posthooks"
    /\ hi[c] = cfg.nPost
    /\ Return(c, res[c], NoErr)
    /\ UNCHANGED <<rlVars, waitVars, histVars, clientVars, hasDeadline, reqErr, ddl, hi, res,
                   lerr, bop, policies, timer, doHist>>
    /\ UNCHANGED obsVars

\* the steps the goroutine of caller c takes by itself
DoStep(c) ==
    \/ DoCall(c)
    \/ DoRateLimit(c)
    \/ WaitToken(c)
    \/ WaitDone(c)
    \/ DoRateLimitReturn(c)
    \/ \E ok \in BOOLEAN : DoPreHook(c, ok)
    \/ DoPreHooksEnd(c)
    \/ \E ok \in BOOLEAN : DoAuth(c, ok)
    \/ \E terr \in BOOLEAN : DoExecute(c, terr)
    \/ \E v \in {"true", "false", "panic"} : DoPredicate(c, v)
    \/ DoBackoff(c)
    \/ DoSelectCtxDone(c)
    \/ DoSelectTimer(c)
    \/ \E terr \in BOOLEAN : DoReExecute(c, terr)
    \/ \E ok \in BOOLEAN : DoPostHook(c, ok)
    \/ DoReturn(c)

\* the limiter of the client, if it has one, is a bucket of one token: a
\* call of Do takes one, or finds none
InitDoSystem ==
    /\ InitClient
    /\ IF cfg.rateLimiter THEN InitLimiter /\ maxTokens = 1 ELSE InitNoLimiter
    /\ InitWaiters(Callers)
    /\ InitHist
    /\ InitDo(Callers)
    /\ InitNoBackoffCalls

\* The limiter of the client is pre-filled while the calls run; its clock
\* does not tick during them (the refill is SpecRL's).
NextDo ==
    \/ PrefillSend
    \/ PrefillDone
    \/ \E c \in Callers : ReqCancel(c)
    \/ \E c \in Callers : ReqDeadline(c)
    \/ \E c \in Callers : ClientDeadline(c)
    \/ \E c \in Callers : TimerFire(c)
    \/ \E c \in Callers : DoCall(c)
    \/ \E c \in Callers : DoRateLimit(c)
    \/ \E c \in Callers : WaitToken(c)
    \/ \E c \in Callers : WaitDone(c)
    \/ \E c \in Callers : DoRateLimitReturn(c)
    \/ \E c \in Callers, ok \in BOOLEAN : DoPreHook(c, ok)
    \/ \E c \in Callers : DoPreHooksEnd(c)
    \/ \E c \in Callers, ok \in BOOLEAN : DoAuth(c, ok)
    \/ \E c \in Callers, terr \in BOOLEAN : DoExecute(c, terr)
    \/ \E c \in Callers, v \in {"true", "false", "panic"} : DoPredicate(c, v)
    \/ \E c \in Callers : DoBackoff(c)
    \/ \E c \in Callers : DoSelectCtxDone(c)
    \/ \E c \in Callers : DoSelectTimer(c)
    \/ \E c \in Callers, terr \in BOOLEAN : DoReExecute(c, terr)
    \/ \E c \in Callers, ok \in BOOLEAN : DoPostHook(c, ok)
    \/ \E c \in Callers : DoReturn(c)

SpecDo == InitDoSystem /\ [][NextDo]_vars

(***************************************************************************)
(* Do called with a context that is already cancelled: the caller cancels  *)
(* the request's context and only then calls Do.  The transport is handed  *)
(* the request with its cancelled context and fails (net/http returns the  *)
(* context's error), so Do gets no further than the first execution.       *)
(***************************************************************************)
NextCancelled ==
    \/ PrefillSend
    \/ PrefillDone
    \/ \E c \in Callers : dpc[c] = "idle" /\ ReqCancel(c)
    \/ \E c \in Callers : reqErr[c] # "none" /\ DoCall(c)
    \/ \E c \in Callers : DoRateLimit(c)
    \/ \E c \in Callers : WaitToken(c)
    \/ \E c \in Callers : WaitDone(c)
    \/ \E c \in Callers : DoRateLimitReturn(c)
    \/ \E c \in Callers, ok \in BOOLEAN : DoPreHook(c, ok)
    \/ \E c \in Callers : DoPreHooksEnd(c)
    \/ \E c \in Callers, ok \in BOOLEAN : DoAuth(c, ok)
    \/ \E c \in Callers : DoExecute(c, TRUE)

SpecCancelled == InitDoSystem /\ [][NextCancelled]_vars

\* The scheduling Do relies on: the goroutines run when they can and a timer
\* that was set fires.  No caller need cancel and no deadline need be near.
FairDo ==
    /\ WF_vars(PrefillSend \/ PrefillDone)
    /\ \A c \in Callers : WF_vars(DoStep(c)) /\ WF_vars(TimerFire(c))

SpecDoFair == SpecDo /\ FairDo

(***************************************************************************)
(* Several goroutines call Do on one client at the same time.  The client *)
(* has a retry predicate and a factory of limited-tries policies, no      *)
(* limiter, hooks or authenticator; the requests carry no deadline, are   *)
(* not cancelled, and the transport answers every execution.              *)
(***************************************************************************)
InitShared ==
    /\ InitClient
    /\ cfg.retryPolicy /\ cfg.withBackoff /\ cfg.backoff = "limited"
    /\ ~cfg.rateLimiter /\ ~cfg.authenticator /\ cfg.nPre = 0 /\ cfg.nPost = 0
    /\ InitNoLimiter
    /\ InitWaiters(Requests)
    /\ InitHist
    /\ InitDo(Requests)
    /\ hasDeadline = [c \in Requests |-> FALSE]
    /\ InitNoBackoffCalls

NextShared ==
    \/ \E c \in Requests : TimerFire(c)
    \/ \E c \in Requests : DoCall(c)
    \/ \E c \in Requests : DoRateLimit(c)
    \/ \E c \in Requests : DoPreHooksEnd(c)
    \/ \E c \in Requests, ok \in BOOLEAN : DoAuth(c, ok)
    \/ \E c \in Requests : DoExecute(c, FALSE)
    \/ \E c \in Requests, v \in {"true", "false"} : DoPredicate(c, v)
    \/ \E c \in Requests : DoBackoff(c)
    \/ \E c \in Requests : DoSelectTimer(c)
    \/ \E c \in Requests : DoReExecute(c, FALSE)
    \/ \E c \in Requests : DoReturn(c)

SpecShared == InitShared /\ [][NextShared]_vars


InitBackoff ==
    /\ InitNoLimiter
    /\ InitWaiters({})
    /\ InitHist
    /\ InitNoClient
    /\ binst \in [BackoffInstances -> NewBackoffs]
    /\ bhist = [i \in BackoffInstances |-> << >>]

NextBackoff == \E i \in BackoffInstances : CallBackoff(i)

SpecBackoff == InitBackoff /\ [][NextBackoff]_vars

InitExp ==
    /\ InitNoLimiter
    /\ InitWaiters({})
    /\ InitHist
    /\ InitNoClient
    /\ binst \in [{ExpInstance} -> ExponentialArgs \cup LimitedPolicies]
    /\ bhist = [i \in {ExpInstance} |-> << >>]

NextExp ==
    \/ ConstructExponential
    \/ \E j1 \in Jitters \cup {0}, j2 \in Jitters \cup {0} : CallExponential(j1, j2)
    \/ CallLimited

SpecExp == InitExp /\ [][NextExp]_vars

InitRL ==
    InitLimiter /\ InitWaiters(Waiters) /\ InitHist /\ InitNoClient /\ InitNoBackoffCalls

NextRL ==
    \/ PrefillSend
    \/ PrefillDone
    \/ Tick
    \/ RangeRecv
    \/ FillCheck
    \/ FillSend
    \/ \E p \in Waiters, hasDl \in BOOLEAN, err \in {"none"} \cup CtxErrs :
           WaitCall(p, hasDl, err)
    \/ \E p \in Waiters : CtxCancel(p)
    \/ \E p \in Waiters : CtxDeadline(p)
    \/ \E p \in Waiters : WaitToken(p)
    \/ \E p \in Waiters : WaitDone(p)

SpecRL == InitRL /\ [][NextRL]_vars

(***************************************************************************)
(* A newly constructed limiter and one goroutine that may or may not call  *)
(* Wait.  The goroutine started by the constructor runs its pre-fill loop  *)
(* once it is scheduled; nothing is assumed of the clock or of the caller. *)
(***************************************************************************)
LoneWaiter == {1}

InitPrefill ==
    InitLimiter /\ InitWaiters(LoneWaiter) /\ InitHist /\ InitNoClient /\ InitNoBackoffCalls

NextPrefill ==
    \/ PrefillSend
    \/ PrefillDone
    \/ Tick
    \/ RangeRecv
    \/ FillCheck
    \/ FillSend
    \/ \E p \in LoneWaiter, hasDl \in BOOLEAN, err \in {"none"} \cup CtxErrs :
           WaitCall(p, hasDl, err)
    \/ \E p \in LoneWaiter : CtxCancel(p)
    \/ \E p \in LoneWaiter : CtxDeadline(p)
    \/ \E p \in LoneWaiter : WaitToken(p)
    \/ \E p \in LoneWaiter : WaitDone(p)

FairPrefill == WF_vars(PrefillSend) /\ WF_vars(PrefillDone)

SpecPrefillFair == InitPrefill /\ [][NextPrefill]_vars /\ FairPrefill

(***************************************************************************)
(* The same limiter with an owner who may stop the ticker.  The goroutine  *)
(* of the limiter runs whenever it can; nothing is assumed of the clock,   *)
(* of the owner or of the caller.                                          *)
(***************************************************************************)
NextStop == NextPrefill \/ StopClock

FairStop ==
    /\ FairPrefill
    /\ WF_vars(RangeRecv)
    /\ WF_vars(FillCheck)
    /\ WF_vars(FillSend)

SpecStopFair == InitPrefill /\ [][NextStop]_vars /\ FairStop

(***************************************************************************)
(* The scheduling Wait relies on: the deadline of a context elapses and a  *)
(* goroutine blocked in select runs once a case is ready.  One condition   *)
(* over all callers is enough, as each caller takes these steps at most    *)
(* twice.  Nothing is assumed of the refill goroutine, of the clock, or of *)
(* callers cancelling.                                                     *)
(***************************************************************************)
FairRL == WF_vars(\E p \in Waiters : CtxDeadline(p) \/ WaitDone(p))

SpecRLFair == SpecRL /\ FairRL

(***************************************************************************)
(* Claims about the limiter.                                               *)
(***************************************************************************)

\* C1: in every reachable state of the limiter, under any interleaving of the
\* pre-fill, the refill ticks and concurrent Wait calls, the number of tokens
\* in the bucket is between 0 and the capacity, inclusive.
C1_BucketWithinCapacity == bucket >= 0 /\ bucket <= maxTokens

\* C1 witness: callers have taken tokens, a refill pass has run, and the
\* bucket is back at its capacity.
C1_Witness == granted >= 1 /\ filled /\ bucket = maxTokens /\ maxTokens >= 2

\* C2 (as claimed): once one refill pass has been processed and no token was
\* taken since it began, the bucket holds exactly maxTokens tokens.
C2_OneTickRefillsToCapacity ==
    (rpc = "range" /\ filled /\ ~takenSinceFill) => bucket = maxTokens

\* C3: a Wait that returns nil has removed exactly one token and no token is
\* handed out twice: every token ever placed is either still in the bucket or
\* was granted to exactly one Wait call, so grants never exceed placements.
C3_TokensConserved == placed = bucket + granted /\ granted <= placed

\* C3 witness: two Wait calls were granted tokens around a refill pass.
C3_Witness == granted >= 2 /\ filled /\ placed > maxTokens

\* C4: every Wait call eventually returns (a context without deadline gets
\* the limiter's timeout): as a caller enters Wait once, from some point on
\* no call is left blocked in select.  A Wait returns nil only in a step that
\* removes a token that was in the bucket, so never from an empty bucket;
\* any other return is a NoTokenError wrapping the error of its context,
\* which is done.
C4_WaitEventuallyReturns ==
    /\ <>[](\A p \in Waiters : wpc[p] # "select")
    /\ [][\A p \in Waiters :
            (wpc[p] = "select" /\ wpc'[p] = "returned")
                => IF wres'[p] = NoErr
                     THEN bucket > 0 /\ bucket' = bucket - 1
                     ELSE wres'[p] = NoTokenError(wctx[p])
                          /\ wctx[p] \in CtxErrs]_vars

\* C4 witness: a Wait entered without a caller deadline found the bucket
\* empty and the clock stopped, and returned NoTokenError when the
\* limiter's timeout elapsed.
C4_Witness ==
    \E p \in Waiters :
        /\ wpc[p] = "returned"
        /\ wdl[p] = "limiter"
        /\ wres[p] = NoTokenError("DeadlineExceeded")
        /\ bucket = 0
        /\ ticks = MaxTicks

\* C5: Wait returns a non-nil error only when the context it waits on is
\* done, and the error is a NoTokenError that wraps that context's Err(),
\* under a caller deadline and under the limiter's timeout alike.
C5_ErrorIsNoTokenError ==
    \A p \in Waiters :
        (wpc[p] = "returned" /\ wres[p] # NoErr)
            => /\ wctx[p] \in CtxErrs
               /\ wres[p] = NoTokenError(wctx[p])
               /\ wres[p].kind = "NoTokenError"
               /\ wres[p].Err = wctx[p]

\* C5 witness: one Wait failed on the caller's cancellation while tokens were
\* there, another on a deadline.
C5_Witness ==
    \E p, q \in Waiters :
        /\ wres[p] = NoTokenError("Canceled")
        /\ wres[q] = NoTokenError("DeadlineExceeded")
        /\ wdl[q] = "caller"

(***************************************************************************)
(* Claims about client.Do.                                                 *)
(***************************************************************************)
CtxDoneError == Errorf("request context done", NoErr)

ExhaustedError == Errorf("error backing off from request", NoErr)

\* C6 (as claimed): once the retry wait has seen the context done, Do
\* abandons the retry sequence: no predicate evaluation, Backoff() call or
\* execution follows, and Do returns the context error, which differs from
\* the exhaustion error.
C6_CtxDoneAbandonsRetry ==
    \A c \in Callers :
        ctxTaken[c] =>
            /\ ~late[c]
            /\ dpc[c] = "done" => (dret[c].err = CtxDoneError /\ dret[c].err # ExhaustedError)

\* C7 (as claimed): once the governing context of a Do call is done, Do
\* eventually returns (or at least ends), whatever the backoff policy.
C7_CancelledDoReturns ==
    \A c \in Callers : (wctx[c] \in CtxErrs) ~> ~Running(c)

\* C8: after a retry predicate that is true, the step in which Backoff()
\* reports !ok ends Do with a non-nil error, the one of exhaustion; and
\* Do never returns a response its predicate accepts for retry with a nil error.
C8_ExhaustionIsAnError ==
    /\ [][\A c \in Callers :
            (dpc[c] = "backoff" /\ dpc'[c] # "backoff" /\ ~Backoff(policies[bop[c]]).ok)
                => /\ dpc'[c] = "done"
                   /\ dret'[c].err # NoErr
                   /\ dret'[c].err.msg = "error backing off from request"]_vars
    /\ [](\A c \in Callers :
            (dpc[c] = "done" /\ cfg.retryPolicy /\ dret[c].res.kind = "response"
                /\ dret[c].res.retry)
                => dret[c].err # NoErr)

\* C8 witness: a limited policy ran out after two retries and Do returned
\* the exhaustion error.
C8_Witness ==
    \E c \in Callers :
        /\ dpc[c] = "done"
        /\ cfg.backoff = "limited"
        /\ execs[c] = 3
        /\ dret[c].err = ExhaustedError

\* C9 (as claimed): when Do ends on exhaustion the caller gets the
\* exhaustion error and no response.
C9_ExhaustionDiscardsResponse ==
    \A c \in Callers :
        (dpc[c] = "done" /\ dret[c].err = ExhaustedError) => dret[c].res = NilResp

\* C9 (amended): when Do ends on exhaustion the caller gets the exhaustion
\* error together with what the last execution returned: its response, which
\* the predicate accepted for retry, or nil if that execution failed.
C9_ExhaustionReturnsLastResponse ==
    \A c \in Callers :
        (dpc[c] = "done" /\ dret[c].err = ExhaustedError)
            => /\ dret[c].res = res[c]
               /\ \/ dret[c].res = Resp(execs[c], TRUE)
                  \/ dret[c].res = NilResp /\ terrSeen[c]

\* C9 witness: exhaustion after a retry, returned with the response of the
\* second execution.
C9_Witness ==
    \E c \in Callers :
        /\ dpc[c] = "done"
        /\ dret[c].err = ExhaustedError
        /\ dret[c].res = Resp(2, TRUE)

\* a run in which nothing but the responses decides: the context stayed
\* live, no execution failed at transport level and no hook failed
CleanRun(c) ==
    /\ wctx[c] = "none"
    /\ ~terrSeen[c]
    /\ execs[c] >= 1
    /\ dret[c].err.kind # "ResponseError"

\* C10: with a retry predicate and a limited-tries policy of r retries, and a
\* transport whose first f <= r responses are to be retried and whose next
\* is not, Do performs exactly f+1 executions and returns the (f+1)-th
\* response with a nil error; and Do never performs more than r+1 executions.
C10_LimitedRetries ==
    \A c \in Callers :
        (cfg.retryPolicy /\ cfg.backoff = "limited")
            => /\ execs[c] <= cfg.retries + 1
               /\ (dpc[c] = "done" /\ CleanRun(c) /\ failFirst <= cfg.retries)
                    => /\ execs[c] = failFirst + 1
                       /\ dret[c].res = Resp(failFirst + 1, FALSE)
                       /\ dret[c].err = NoErr

\* C10 witness: two failing responses, two retries, the third response returned.
C10_Witness ==
    \E c \in Callers :
        /\ cfg.retryPolicy /\ cfg.backoff = "limited" /\ cfg.retries = 2
        /\ failFirst = 2
        /\ dpc[c] = "done" /\ CleanRun(c)
        /\ execs[c] = 3
        /\ dret[c] = [res |-> Resp(3, FALSE), err |-> NoErr]

(***************************************************************************)
(* The calls of one Do, read from its log.                                 *)
(***************************************************************************)
\* positions in the log of c of the calls of a stage, and of its i-th hook
CallsOf(c, stage) == {k \in DOMAIN log[c] : log[c][k].stage = stage}

HookCalls(c, stage, i) == {k \in CallsOf(c, stage) : log[c][k].i = i}

\* the stages in the order Do goes through them
StageRank(stage) ==
    CASE stage = "wait" -> 1
      [] stage = "pre" -> 2
      [] stage = "auth" -> 3
      [] stage = "exec" -> 4
      [] stage = "post" -> 5

Returned(c) == dret[c] # NotReturned

\* C11: within one Do call each pre request hook and the authenticator are
\* called at most once, and before the first execution, however many retry
\* executions follow; between the first execution and the last only execute
\* is called.
C11_HooksAndAuthOnce ==
    \A c \in Callers :
        /\ \A i \in 1..MaxHooks : Cardinality(HookCalls(c, "pre", i)) <= 1
        /\ Cardinality(CallsOf(c, "auth")) <= 1
        /\ \A k \in CallsOf(c, "pre") \cup CallsOf(c, "auth") :
              \A l \in CallsOf(c, "exec") : k < l
        /\ \A k, l \in CallsOf(c, "exec") :
              \A m \in k..l : log[c][m].stage = "exec"

\* C11 witness: a call with two pre request hooks and an authenticator
\* retried twice: the log holds one call of each and three executions.
C11_Witness ==
    \E c \in Callers :
        /\ dpc[c] = "done"
        /\ Cardinality(HookCalls(c, "pre", 1)) = 1
        /\ Cardinality(HookCalls(c, "pre", 2)) = 1
        /\ Cardinality(CallsOf(c, "auth")) = 1
        /\ Cardinality(CallsOf(c, "exec")) = 3

\* the stage whose error a returned Do reports ("none": Do reports no stage's
\* error; the error of a retried execution is never reported, see C16)
FailedStage(e) ==
    CASE e.kind = "RateLimitError" -> "wait"
      [] e.kind = "RequestError" /\ e.Err = "error running pre request hook" -> "pre"
      [] e.kind = "RequestError" /\ e.Err = "error authenticating request" -> "auth"
      [] e.kind = "wrapError" /\ e.msg = "error executing request" -> "exec"
      [] e.kind = "ResponseError" -> "post"
      [] OTHER -> "none"

\* C12 (as claimed): the calls of a Do come in the order Wait, pre request
\* hooks in configured order, Authenticate, executions, post response hooks
\* in configured order; and once a stage has failed nothing of a later stage
\* is called: when Do returned the error of a stage the failing call is the
\* last of the log, for good, and when the last execution failed in the
\* transport no post response hook is called.
C12_StagesInOrder ==
    /\ [](\A c \in Callers :
            /\ \A k, l \in DOMAIN log[c] :
                  k < l => /\ StageRank(log[c][k].stage) <= StageRank(log[c][l].stage)
                           /\ log[c][k].stage = log[c][l].stage => log[c][k].i <= log[c][l].i
            /\ \A st \in {"pre", "post"} : \A k \in CallsOf(c, st) :
                  \A j \in 1..(log[c][k].i - 1) : \E m \in 1..(k - 1) :
                      log[c][m].stage = st /\ log[c][m].i = j
            /\ (Returned(c) /\ FailedStage(dret[c].err) # "none")
                  => /\ log[c] # << >>
                     /\ log[c][Len(log[c])].stage = FailedStage(dret[c].err)
            /\ (execs[c] >= 1 /\ res[c] = NilResp) => CallsOf(c, "post") = {})
    /\ [][\A c \in Callers : Returned(c) => log'[c] = log[c]]_vars

\* C13: when the Wait of the configured limiter fails, Do returns no response
\* and a RateLimitError that wraps the error Wait returned and carries the
\* limiter; it has executed nothing and called Wait once, and went no further.
C13_RateLimitFailure ==
    \A c \in Callers :
        /\ (dpc[c] \notin {"idle", "ratelimit", "wait"} /\ wres[c] \notin {NotReturned, NoErr})
              => /\ dpc[c] = "done"
                 /\ dret[c].err.kind = "RateLimitError"
        /\ (dpc[c] = "done" /\ dret[c].err.kind = "RateLimitError")
              => /\ cfg.rateLimiter
                 /\ wres[c].kind = "NoTokenError"
                 /\ dret[c].err.Err = wres[c]
                 /\ dret[c].err.RateLimiter = "rateLimiter"
                 /\ dret[c].res = NilResp
                 /\ execs[c] = 0
                 /\ log[c] = <<Event("wait", 0, 0)>>

\* C13 witness: the request had no deadline, the deadline Do set elapsed
\* in Wait, and Do returned the RateLimitError.
C13_Witness ==
    \E c \in Callers :
        /\ dpc[c] = "done"
        /\ ddl[c] = "client"
        /\ dret[c].err = RateLimitError(NoTokenError("DeadlineExceeded"))

\* the post response hooks were run on the response Do returned: all of
\* them, or those up to the one that failed
PostHooksRanOn(c, r) ==
    \/ \A i \in 1..cfg.nPost :
          \E k \in HookCalls(c, "post", i) : log[c][k].n = r.n
    \/ /\ dret[c].err.kind = "ResponseError"
       /\ \E k \in CallsOf(c, "post") : log[c][k].n = r.n

\* C14 (as claimed): whenever Do has returned a response that an execution
\* obtained, the post response hooks have been run on that response, on
\* every path, exhaustion and cancellation in the retry wait included.
C14_PostHooksBeforeReturn ==
    \A c \in Callers :
        (dpc[c] = "done" /\ dret[c].res.kind = "response")
            => PostHooksRanOn(c, dret[c].res)

\* C15 (as claimed): when a post response hook fails Do returns a
\* ResponseError with the response it had obtained, which is not nil, and
\* the failing hook is the last call of the log.
C15_PostHookFailure ==
    \A c \in Callers :
        (dpc[c] = "done" /\ dret[c].err.kind = "ResponseError")
            => /\ dret[c].res # NilResp
               /\ dret[c].res = res[c]
               /\ dret[c].err.Response = dret[c].res
               /\ log[c][Len(log[c])].stage = "post"

\* C16 (as claimed): when the last execution of a Do call was a retry that
\* failed at transport level, the failure is reported: Do does not return a
\* nil error.
C16_RetryTransportFailureReported ==
    \A c \in Callers :
        (dpc[c] = "done" /\ execs[c] >= 2 /\ res[c] = NilResp)
            => dret[c].err # NoErr

\* C17: with no retry predicate configured a Do call performs one execution
\* and no more, never obtains a policy from the factory, never calls
\* Backoff() and never sets or waits on a backoff timer; a call that got as
\* far as the execution returns after exactly one, whatever the response.
C17_NoPredicateNoRetry ==
    \A c \in Callers :
        ~cfg.retryPolicy
            => /\ execs[c] <= 1
               /\ bop[c] = 0
               /\ policies = << >>
               /\ timer[c] = "none"
               /\ dpc[c] \notin {"predicate", "backoff", "select", "reexecute"}
               /\ (dpc[c] = "done" /\ FailedStage(dret[c].err) \notin {"wait", "pre", "auth"})
                     => execs[c] = 1

\* C17 witness: without a predicate, a response the predicate of another
\* client would retry is returned after one execution, with a nil error.
C17_Witness ==
    \E c \in Callers :
        /\ ~cfg.retryPolicy /\ cfg.withBackoff /\ cfg.backoff = "infinite"
        /\ dpc[c] = "done"
        /\ dret[c] = [res |-> Resp(1, TRUE), err |-> NoErr]

\* C18: a client with a retry predicate and no backoff factory of its own
\* uses the no-op policy, whose Backoff() answers (0, false) every time: when
\* the predicate is true on the first response Do ends after that one
\* execution, with the exhaustion error.
C18_DefaultBackoffIsNoop ==
    \A c \in Callers :
        (cfg.retryPolicy /\ ~cfg.withBackoff)
            => /\ execs[c] <= 1
               /\ bop[c] # 0
                     => /\ policies[bop[c]].kind = "noop"
                        /\ Backoff(policies[bop[c]]).t = 0
                        /\ ~Backoff(policies[bop[c]]).ok
               /\ (execs[c] = 1 /\ res[c] = Resp(1, TRUE))
                     => /\ dpc[c] \in {"predicate", "backoff", "done"}
                        /\ dpc[c] = "done" => dret[c] = [res |-> res[c], err |-> ExhaustedError]

\* C18 witness: the default policy ended a call on its first response.
C18_Witness ==
    \E c \in Callers :
        /\ cfg.retryPolicy /\ ~cfg.withBackoff
        /\ dpc[c] = "done"
        /\ execs[c] = 1
        /\ dret[c].err = ExhaustedError

\* C19: with a factory of fresh limited-tries policies the calls of Do on
\* one client never share backoff state: the calls running at the same time
\* hold different instances, the instance of a call changes only in that
\* call's own Backoff(), and whatever the other calls used up, a call whose
\* responses keep asking for a retry is exhausted only after cfg.retries
\* retries of its own.
C19_BackoffNotShared ==
    /\ [](\A c, d \in Requests :
            (c # d /\ bop[c] # 0 /\ bop[d] # 0) => bop[c] # bop[d])
    /\ [][\A c \in Requests :
            (bop[c] # 0 /\ ~(dpc[c] = "backoff" /\ dpc'[c] # "backoff"))
                => policies'[bop[c]] = policies[bop[c]]]_vars
    /\ [](\A c \in Requests :
            (dpc[c] = "done" /\ CleanRun(c) /\ dret[c].err = ExhaustedError)
                => /\ execs[c] = cfg.retries + 1
                   /\ policies[bop[c]].done = cfg.retries)

\* C19 witness: two calls on one client both used their two retries and
\* both ended exhausted after three executions.
C19_Witness ==
    /\ cfg.retries = 2
    /\ \A c \in {1, 2} :
          /\ dpc[c] = "done"
          /\ execs[c] = 3
          /\ dret[c].err = ExhaustedError
          /\ policies[bop[c]].done = 2

\* C20: on a limited-tries policy built with base b and retries r >= 0 the
\* first r calls of Backoff() each return (b, true) and every later call
\* returns (0, false), so exhaustion is permanent; the calls made on another
\* instance change nothing of it.
C20_LimitedTriesSequence ==
    \A i \in BackoffInstances :
        binst[i].kind = "limited"
            => /\ binst[i].done <= binst[i].retries
               /\ \A k \in DOMAIN bhist[i] :
                     bhist[i][k] = IF k <= binst[i].retries
                                      THEN [t |-> binst[i].base, ok |-> TRUE]
                                      ELSE [t |-> 0, ok |-> FALSE]

\* C20 witness: a policy of base 2 and 2 retries called four times, beside
\* an instance that was never called.
C20_Witness ==
    \E i, j \in BackoffInstances :
        /\ binst[i] = [kind |-> "limited", base |-> 2, done |-> 2, retries |-> 2]
        /\ bhist[i] = << [t |-> 2, ok |-> TRUE], [t |-> 2, ok |-> TRUE],
                         [t |-> 0, ok |-> FALSE], [t |-> 0, ok |-> FALSE] >>
        /\ bhist[j] = << >>

(***************************************************************************)
(* The exponential policy and the two counting policies (SpecExp).         *)
(***************************************************************************)

ExpPolicy == binst[ExpInstance]
ExpHist == bhist[ExpInstance]
IsExponential == ExpPolicy.kind = "exponential"

\* C21: an exponential policy built with retries r returns ok = true on
\* exactly its first r calls, capped calls included, and (0, false) on every
\* call after them.
C21_ExponentialTriesCounted ==
    IsExponential =>
        \A k \in 1..Len(ExpHist) :
            /\ ExpHist[k].ok <=> k <= ExpPolicy.retries
            /\ k > ExpPolicy.retries => ExpHist[k].t = 0

\* C21 witness: two retries, the first of them capped, then two refusals.
C21_Witness ==
    /\ IsExponential
    /\ ExpPolicy.retries = 2
    /\ Len(ExpHist) = 4
    /\ ExpHist[1].raw + ExpHist[1].j1 >= ExpPolicy.max
    /\ ExpHist[2].ok
    /\ ExpHist[4] = [t |-> 0, ok |-> FALSE, raw |-> ExpHist[4].raw, j1 |-> 0, j2 |-> 0]

CountingPolicy == ExpPolicy.kind \in {"limited", "exponential"}

\* C22: the attempts-done counter of a limited-tries or exponential policy
\* never decreases, grows by exactly one on every call that returns true,
\* stays as it is on every call that returns false, and never exceeds the
\* configured retries.
C22_CounterMonotone ==
    /\ [](CountingPolicy => ExpPolicy.done >= 0 /\ ExpPolicy.done <= ExpPolicy.retries)
    /\ [][(CountingPolicy /\ CountingPolicy') =>
             LET called == Len(ExpHist') = Len(ExpHist) + 1
             IN  /\ ExpPolicy'.done >= ExpPolicy.done
                 /\ (called /\ ExpHist'[Len(ExpHist')].ok)
                        => ExpPolicy'.done = ExpPolicy.done + 1
                 /\ (called /\ ~ExpHist'[Len(ExpHist')].ok)
                        => ExpPolicy'.done = ExpPolicy.done
                 /\ ~called => ExpPolicy'.done = ExpPolicy.done]_vars

\* C22 witness: an exponential policy that counted both of its retries, one
\* of them capped, and then refused a call without counting it.
C22_Witness ==
    /\ IsExponential
    /\ ExpPolicy.retries = 2
    /\ ExpPolicy.done = 2
    /\ Len(ExpHist) = 3
    /\ ~ExpHist[3].ok
    /\ ExpHist[2].raw + ExpHist[2].j1 >= ExpPolicy.max

\* C23 (as claimed): the constructor of the exponential policy panics for
\* every base that is zero or negative and for no other.
C23_PanicsOnNonPositiveBase ==
    ExpPolicy.kind \in {"panic", "exponential"} =>
        (ExpPolicy.kind = "panic" <=> ExpPolicy.base <= 0)

RECURSIVE Pow2(_)
Pow2(n) == IF n = 0 THEN 1 ELSE 2 * Pow2(n - 1)

\* the calls of the history that returned true and that the code did not
\* cap: current, the jitter included, was below max (backoff.go:121)
Uncapped(k) == ExpHist[k].ok /\ ExpHist[k].raw + ExpHist[k].j1 < ExpPolicy.max

\* C24 (as claimed): while the raw wait is below the cap, call i (from zero)
\* returns raw(i) plus a jitter in [0, 500ms), with raw(0) = base and
\* raw(i) = base * 2^(i-1) for i >= 1.
C24_RawHalvedExponent ==
    (IsExponential /\ ExpPolicy.base > 0) =>
        \A k \in 1..Len(ExpHist) :
            LET i == k - 1
                raw == IF i = 0 THEN ExpPolicy.base ELSE ExpPolicy.base * Pow2(i - 1)
            IN  (ExpHist[k].ok /\ raw < ExpPolicy.max)
                    => ExpHist[k].t - raw \in 0..(JitterBound - 1)

\* C25: with a base of at least 500ms and every raw wait of the policy below
\* max, every duration returned with true is strictly greater than the one
\* returned by the call before it, whatever the jitter values.
C25_StrictlyIncreasing ==
    (/\ IsExponential
     /\ ExpPolicy.base >= JitterBound
     /\ \A k \in 1..Len(ExpHist) : ExpHist[k].ok => ExpHist[k].raw < ExpPolicy.max)
        => \A k \in 2..Len(ExpHist) : ExpHist[k].ok => ExpHist[k].t > ExpHist[k - 1].t

\* C25 witness: base 500ms, the largest jitter on the first call and none on
\* the second: 999ms, then 1000ms.
C25_Witness ==
    /\ IsExponential
    /\ ExpPolicy.base = JitterBound
    /\ Len(ExpHist) >= 2
    /\ Uncapped(1)
    /\ Uncapped(2)
    /\ ExpHist[1].j1 = JitterBound - 1
    /\ ExpHist[2].j1 = 0
    /\ ExpHist[2].t = ExpHist[1].t + 1

\* C26 (as claimed): with a positive base every duration returned, the zero
\* of a refusal included, is at most max + 500ms, whatever max, the call and
\* the jitter are, max < base included.
C26_AtMostMaxPlusJitter ==
    (IsExponential /\ ExpPolicy.base > 0)
        => \A k \in 1..Len(ExpHist) : ExpHist[k].t <= ExpPolicy.max + JitterBound

\* C26 (amended): with a positive base every duration returned with true is
\* at most max + 500ms, whatever max, the call and the jitter are, max < base
\* included; the zero returned with false is within that bound when max is
\* not below -500ms.
C26_RetryWaitAtMostMaxPlusJitter ==
    (IsExponential /\ ExpPolicy.base > 0)
        => \A k \in 1..Len(ExpHist) :
               (ExpHist[k].ok \/ ExpPolicy.max >= 0 - JitterBound)
                   => ExpHist[k].t <= ExpPolicy.max + JitterBound

\* C26 witness: max two seconds below a base of five, and a call that
\* returned max and the largest jitter.
C26_Witness ==
    /\ IsExponential
    /\ ExpPolicy.base = 5000
    /\ ExpPolicy.max = 2000
    /\ Len(ExpHist) >= 2
    /\ ExpHist[2].ok
    /\ ExpHist[2].t = ExpPolicy.max + (JitterBound - 1)

\* C27 (as claimed): a call returns max plus jitter exactly when its raw wait
\* before jitter is at least max; below max it returns the raw wait plus the
\* jitter drawn for it, even when that sum is at least max.
C27_CapDecidedBeforeJitter ==
    (IsExponential /\ ExpPolicy.base > 0) =>
        \A k \in 1..Len(ExpHist) :
            ExpHist[k].ok =>
                IF ExpHist[k].raw >= ExpPolicy.max
                THEN ExpHist[k].t - ExpPolicy.max \in 0..(JitterBound - 1)
                ELSE ExpHist[k].t = ExpHist[k].raw + ExpHist[k].j1

(***************************************************************************)
(* The limiter before its first refill (SpecRL, SpecPrefillFair).          *)
(***************************************************************************)

\* the goroutine has left the pre-fill loop and has received no tick yet
NoRefillYet == rpc = "range" /\ ~filled

\* the Wait calls issued so far, and those of them that have returned
Issued == {p \in DOMAIN wpc : wpc[p] # "idle"}
ReturnedWaits == {p \in DOMAIN wpc : wpc[p] = "returned"}

\* C28: when the pre-fill is complete, no tick has been processed and n <= C
\* Wait calls with live contexts have been issued, every one of them that
\* has returned has returned nil, every one still in Wait finds a token
\* ready, and the bucket holds C minus the number of returned calls: C - n
\* once all n have returned.
C28_PrefilledTokensServeWaits ==
    (/\ NoRefillYet
     /\ Cardinality(Issued) <= maxTokens
     /\ \A p \in Issued : wctx[p] = "none")
        => /\ \A p \in ReturnedWaits : wres[p] = NoErr
           /\ \A p \in Issued \ ReturnedWaits : CanRecv(bucket)
           /\ bucket = maxTokens - Cardinality(ReturnedWaits)

\* C28 witness: capacity two, two Wait calls with live contexts both
\* returned nil before any tick, and the bucket is empty.
C28_Witness ==
    /\ NoRefillYet
    /\ ticks = 0
    /\ maxTokens = 2
    /\ Cardinality(ReturnedWaits) = 2
    /\ \A p \in ReturnedWaits : wctx[p] = "none" /\ wres[p] = NoErr
    /\ bucket = 0

\* C29: a newly constructed limiter eventually leaves its pre-fill loop,
\* whether or not the clock ever ticks, and when it does so with no token
\* taken by any Wait the bucket holds exactly maxTokens tokens.
C29_PrefillCompletes ==
    /\ <>(rpc # "prefill")
    /\ [][(rpc = "prefill" /\ rpc' # "prefill" /\ granted = 0)
             => bucket' = maxTokens]_vars

\* C29 witness: the pre-fill of a limiter of capacity two is complete, the
\* clock has not ticked, no Wait was called, and the bucket holds two tokens.
C29_Witness ==
    /\ NoRefillYet
    /\ ticks = 0
    /\ Issued = {}
    /\ maxTokens = 2
    /\ bucket = 2

(***************************************************************************)
(* Do with an already cancelled context (SpecCancelled).                   *)
(***************************************************************************)

\* C30 (as claimed): a Do call made with an already cancelled context never
\* returns without an error; with a rate limiter configured it takes no
\* token, runs no stage after the admission, and returns the rate limit
\* error that wraps the limiter's error for the cancelled context.
C30_CancelledDoFailsAtAdmission ==
    \A c \in Callers :
        /\ dpc[c] = "done" => dret[c].err # NoErr
        /\ cfg.rateLimiter =>
               /\ granted = 0
               /\ dpc[c] \in {"idle", "ratelimit", "wait", "done"}
               /\ dpc[c] = "done" =>
                      /\ dret[c].err = RateLimitError(NoTokenError("Canceled"))
                      /\ log[c] = <<Event("wait", 0, 0)>>

(***************************************************************************)
(* The errors Do returns (SpecDo).                                         *)
(***************************************************************************)

\* the error types of the package
TypedErrors == {"RateLimitError", "RequestError", "ResponseError"}

RECURSIVE IsOrWrapsTyped(_)
\* errors.As(e, &target) succeeds for a target of one of the package's types
IsOrWrapsTyped(e) ==
    \/ e.kind \in TypedErrors
    \/ e.kind = "wrapError" /\ IsOrWrapsTyped(e.Err)

\* C31 (as claimed): every non-nil error Do returns is, or wraps, one of the
\* package's typed errors, so that the caller can branch on the failed stage.
C31_ErrorsAreTyped ==
    \A c \in Callers :
        (dpc[c] = "done" /\ dret[c].err # NoErr) => IsOrWrapsTyped(dret[c].err)

(***************************************************************************)
(* The end of the refill goroutine (SpecStopFair).                         *)
(***************************************************************************)

\* the goroutine has left `for range t.C` and returned, which it does only
\* once t.C is closed
RefillEnded == rpc = "ended"

\* C32 (as claimed): once the owner has stopped the clock the refill
\* goroutine eventually ends, from then on no token is added, and the
\* goroutine does not end while the clock is running.
C32_RefillEndsWithClock ==
    /\ [](stopped => <>RefillEnded)
    /\ [](RefillEnded => stopped)
    /\ [][RefillEnded => placed' = placed]_vars

(***************************************************************************)
(* The contexts of Do's admission and retry waits (SpecDo).                *)
(***************************************************************************)

\* C33: the context Do hands to the limiter always carries a deadline, the
\* caller's if the request context has one and otherwise the one Do derives
\* from MaxRateLimiterWaitTime, so the limiter never sets its own timeout;
\* an admission that fails on a deadline fails on that deadline.
C33_AdmissionDeadline ==
    \A c \in Callers :
        (cfg.rateLimiter /\ wpc[c] # "idle") =>
            /\ wdl[c] = "caller"
            /\ ddl[c] = IF hasDeadline[c] THEN "request" ELSE "client"
            /\ wres[c] = NoTokenError("DeadlineExceeded") =>
                   IF hasDeadline[c] THEN reqErr[c] = "DeadlineExceeded"
                                     ELSE reqErr[c] # "DeadlineExceeded"

\* C33 witness: a request without deadline was refused admission when the
\* deadline derived from MaxRateLimiterWaitTime elapsed.
C33_Witness ==
    \E c \in Callers :
        /\ cfg.rateLimiter
        /\ ~hasDeadline[c]
        /\ dpc[c] = "done"
        /\ dret[c].err = RateLimitError(NoTokenError("DeadlineExceeded"))
        /\ reqErr[c] = "none"

\* C34 (as claimed): the deadline Do derives from MaxRateLimiterWaitTime
\* bounds the admission only: the retry wait takes its context-done case
\* only when the request's own context is done.
C34_RetryWaitSeesRequestContext ==
    [][\A c \in Callers :
           (~ctxTaken[c] /\ ctxTaken'[c]) => reqErr[c] # "none"]_vars

\* C35 (as claimed): Do never returns a nil response together with a nil
\* error.
C35_ResponseOrError ==
    \A c \in Callers :
        dpc[c] = "done" => (dret[c].res # NilResp \/ dret[c].err # NoErr)

(***************************************************************************)
(* Admission and retry budget of one Do call (SpecDo).                     *)
(***************************************************************************)

\* C36: admission happens once per Do call and not once per execution: Wait
\* is called at most once, a call that passed admission has removed exactly
\* one token however many executions it makes, and a call that was refused
\* has removed none.
C36_OneTokenPerDo ==
    \A c \in Callers :
        cfg.rateLimiter =>
            /\ Cardinality(CallsOf(c, "wait")) <= 1
            /\ granted = (IF wres[c] = NoErr THEN 1 ELSE 0)
            /\ bucket = placed - granted
            /\ execs[c] >= 1 => wres[c] = NoErr

\* C36 witness: a Do call with a limiter made three executions and returned
\* with one token taken.
C36_Witness ==
    \E c \in Callers :
        /\ cfg.rateLimiter
        /\ dpc[c] = "done"
        /\ execs[c] >= 3
        /\ granted = 1
        /\ bucket = 0

\* C37 (as claimed): every execution after the first follows exactly one
\* Backoff() call that returned true, and Backoff() is called only for a
\* retry the predicate asked for: between executions the limited-tries
\* policy of the call has counted as many attempts as there were executions
\* after the first.
C37_OneBackoffPerRetry ==
    \A c \in Callers :
        (/\ HasRetryPolicy(cfg)
         /\ cfg.backoff = "limited"
         /\ bop[c] \in DOMAIN policies
         /\ dpc[c] \in {"predicate", "backoff", "posthooks", "done"})
            => policies[bop[c]].done = execs[c] - 1

(***************************************************************************)
(* Tokens and the refill goroutine under concurrent Wait calls (SpecRL).   *)
(***************************************************************************)

\* the Wait calls that have returned nil
NilWaits == {p \in DOMAIN wres : wres[p] = NoErr}

\* C38: a Wait call that returns a NoTokenError leaves the bucket as it is,
\* and the tokens missing from the bucket are exactly those taken by the
\* Wait calls that returned nil.
C38_RefusedWaitTakesNothing ==
    /\ [][\A p \in Waiters :
              (wres[p] = NotReturned /\ wres'[p].kind = "NoTokenError")
                  => bucket' = bucket]_vars
    /\ [](bucket = placed - Cardinality(NilWaits))

\* C38 witness: of two Wait calls one returned nil and one a NoTokenError,
\* and one token is gone from a bucket of two.
C38_Witness ==
    /\ maxTokens = 2
    /\ placed = 2
    /\ bucket = 1
    /\ Cardinality(NilWaits) = 1
    /\ \E p \in Waiters : wres[p] = NoTokenError("Canceled")

\* C39: the goroutine of the limiter never blocks on a full bucket: whenever
\* it is about to send, in the pre-fill or in a refill pass, the bucket has
\* room; the loop variable of a pass stays within the capacity, so the pass
\* ends; and the mutex is held during a pass only.
C39_RefillNeverBlocks ==
    /\ (rpc = "prefill" /\ ri < maxTokens) => CanSend(bucket, maxTokens)
    /\ rpc = "send" => CanSend(bucket, maxTokens)
    /\ ri <= maxTokens
    /\ mtx <=> rpc \in {"fill", "send"}

\* C39 witness: a Wait call took a token from a full bucket of two after a
\* refill pass had begun, and the pass is about to send into the room it left.
C39_Witness ==
    /\ rpc = "send"
    /\ mtx
    /\ takenSinceFill
    /\ maxTokens = 2
    /\ bucket = 1
    /\ granted = 1

(***************************************************************************)
(* The exponential policy at the width of time.Duration.  A Duration is an *)
(* int64 count of nanoseconds, and int is 64 bits wide: a value is kept as *)
(* four limbs of 16 bits, least significant first, in two's complement,    *)
(* and every operation wraps as the machine's does.                        *)
(***************************************************************************)

\* the width of int64 (time.Duration) and of int
DurationBits == 64

LimbBits == 16
Limb == 65536
Limbs == DurationBits \div LimbBits

Zero64 == <<0, 0, 0, 0>>

\* the int64 of a number 0 <= n < 2^31
Int64(n) == <<n % Limb, n \div Limb, 0, 0>>

\* a + b in int64: limb by limb with the carry, the last carry is lost
Add64(a, b) ==
    LET s1 == a[1] + b[1]
        s2 == a[2] + b[2] + (s1 \div Limb)
        s3 == a[3] + b[3] + (s2 \div Limb)
        s4 == a[4] + b[4] + (s3 \div Limb)
    IN  <<s1 % Limb, s2 % Limb, s3 % Limb, s4 % Limb>>

\* a << m for m below the width of a limb
ShlBits(a, m) ==
    LET p == Shl(1, m)
        s1 == a[1] * p
        s2 == a[2] * p + (s1 \div Limb)
        s3 == a[3] * p + (s2 \div Limb)
        s4 == a[4] * p + (s3 \div Limb)
    IN  <<s1 % Limb, s2 % Limb, s3 % Limb, s4 % Limb>>

\* a << (q * LimbBits)
ShlLimbs(a, q) ==
    <<IF q = 0 THEN a[1] ELSE 0,
      IF q <= 1 THEN a[2 - q] ELSE 0,
      IF q <= 2 THEN a[3 - q] ELSE 0,
      IF q <= 3 THEN a[4 - q] ELSE 0>>

\* a << n: the bits shifted out are lost, and a count of 64 or more leaves 0
Shl64(a, n) ==
    IF n >= DurationBits THEN Zero64
    ELSE ShlLimbs(ShlBits(a, n % LimbBits), n \div LimbBits)

ByteBits == 8
ByteBase == 256

\* byte k of f, least significant first
Byte(f, k) ==
    (f[(k \div 2) + 1] \div (IF k % 2 = 0 THEN 1 ELSE ByteBase)) % ByteBase

\* a * m in int64 for one byte m
MulByte(a, m) ==
    LET s1 == a[1] * m
        s2 == a[2] * m + (s1 \div Limb)
        s3 == a[3] * m + (s2 \div Limb)
        s4 == a[4] * m + (s3 \div Limb)
    IN  <<s1 % Limb, s2 % Limb, s3 % Limb, s4 % Limb>>

\* (a * byte k of f) << 8k
MulTerm(a, f, k) == Shl64(MulByte(a, Byte(f, k)), ByteBits * k)

\* a * f in int64: the sum of the products of a with each byte of f in its place
Mul64(a, f) ==
    LET t01 == Add64(MulTerm(a, f, 0), MulTerm(a, f, 1))
        t23 == Add64(MulTerm(a, f, 2), MulTerm(a, f, 3))
        t45 == Add64(MulTerm(a, f, 4), MulTerm(a, f, 5))
        t67 == Add64(MulTerm(a, f, 6), MulTerm(a, f, 7))
    IN  Add64(Add64(t01, t23), Add64(t45, t67))

\* the sign bit
IsNegative(a) == a[Limbs] >= Limb \div 2

RECURSIVE UnsignedGE(_, _, _)
UnsignedGE(a, b, i) ==
    IF i = 0 THEN TRUE
    ELSE IF a[i] # b[i] THEN a[i] > b[i]
    ELSE UnsignedGE(a, b, i - 1)

\* a >= b in int64
GE64(a, b) ==
    IF IsNegative(a) # IsNegative(b) THEN IsNegative(b) ELSE UnsignedGE(a, b, Limbs)

\* n * time.Second, n nanoseconds
Seconds(n) == Mul64(Int64(n), Int64(1000000000))
Nanoseconds(n) == Int64(n)

\* b.jitter(): time.Duration(rand.Intn(500)) * time.Millisecond
JitterInt64(j) == Int64(j * 1000000)

\* current before the jitter: b.base, or b.base * time.Duration(2 << (b.done-1))
RawInt64(b) ==
    IF b.done = 0 THEN b.base ELSE Mul64(b.base, Shl64(Int64(2), b.done - 1))

\* (b *exponentialBackoff) Backoff() in int64; j1 and j2 are the results of
\* rand.Intn in the first and in the second call of b.jitter()
ExponentialBackoffInt64(b, j1, j2) ==
    IF b.done + 1 > b.retries
    THEN [t |-> Zero64, ok |-> FALSE, b |-> b]
    ELSE LET current == Add64(RawInt64(b), JitterInt64(j1))
         IN  IF GE64(current, b.max)
             THEN [t |-> Add64(b.max, JitterInt64(j2)), ok |-> TRUE,
                   b |-> [b EXCEPT !.done = @ + 1]]
             ELSE [t |-> current, ok |-> TRUE, b |-> [b EXCEPT !.done = @ + 1]]

\* policies that are asked for more retries than a Duration has bits
WideRetries == DurationBits + 2

\* NewExponentialBackoff(base, max, WideRetries) with base and max positive
WidePolicies ==
    {[kind |-> "exponential", base |-> base, done |-> 0, max |-> max,
      retries |-> WideRetries] :
         base \in {Nanoseconds(1), Seconds(1), Seconds(5)},
         max \in {Seconds(2), Seconds(7200)}}

\* t, ok := b.Backoff(); the history keeps the last result only
CallExponentialInt64(j1, j2) ==
    /\ binst[ExpInstance].done < WideRetries
    /\ LET b == binst[ExpInstance]
           r == ExponentialBackoffInt64(b, j1, j2)
       IN  /\ GE64(Add64(RawInt64(b), JitterInt64(j1)), b.max) \/ j2 = 0
           /\ binst' = [binst EXCEPT ![ExpInstance] = r.b]
           /\ bhist' = [bhist EXCEPT ![ExpInstance] = <<[t |-> r.t, ok |-> r.ok]>>]
    /\ UNCHANGED <<rlVars, waitVars, histVars, clientVars, doVars, doHist, log>>

InitInt64 ==
    /\ InitNoLimiter
    /\ InitWaiters({})
    /\ InitHist
    /\ InitNoClient
    /\ binst \in [{ExpInstance} -> WidePolicies]
    /\ bhist = [i \in {ExpInstance} |-> << >>]

NextInt64 == \E j1 \in Jitters, j2 \in Jitters \cup {0} : CallExponentialInt64(j1, j2)

SpecInt64 == InitInt64 /\ [][NextInt64]_vars

\* the smaller of two durations
Min64(a, b) == IF GE64(a, b) THEN b ELSE a

\* C40 (as claimed): with base and max positive every duration returned with
\* true is non-negative and at least min(base, max), also at the call
\* indices where base * 2^done no longer fits 64 bits.
C40_WaitAtLeastBase ==
    \A k \in 1..Len(bhist[ExpInstance]) :
        bhist[ExpInstance][k].ok =>
            /\ ~IsNegative(bhist[ExpInstance][k].t)
            /\ GE64(bhist[ExpInstance][k].t,
                    Min64(binst[ExpInstance].base, binst[ExpInstance].max))
====
